---------------------------- MODULE Spec2Model ----------------------------
(***************************************************************************)
(* Model of the zoned-bit-recording disk of src/hdd.cpp (class HDD): the   *)
(* constructor, the address decoder, the seek / rotation / transfer time   *)
(* estimators and the read and write operations that move the head.        *)
(*                                                                         *)
(* Arithmetic.  The code computes in IEEE doubles.  The model computes in  *)
(* exact integers:                                                         *)
(*  - the track size floor(inner + diff * t) is computed as                *)
(*    inner + ((outer - inner) * t) div (tracks - 1); for every geometry   *)
(*    of the model (and well beyond its bounds) the double computation     *)
(*    gives the same integer;                                              *)
(*  - the capacity is stored as a double number of gigabytes and converted *)
(*    back to bytes in decode; that round trip loses one byte for some     *)
(*    sector totals, which CapacityRoundsDown lists;                       *)
(*  - times are integers in units of 60 / (rpm * K) seconds, K being       *)
(*    TimeBase(g): a half revolution is K / 2 units, one sector of a track *)
(*    of n sectors is K / n units, one second is (rpm / 60) * K units.     *)
(* The uint32 quantities of the code stay far below 2^32 within the bounds *)
(* of the model; the two places where the code relies on wrap-around       *)
(* (total_sector - 1 with total_sector = 0, and max_access) are modelled   *)
(* by U32PredGeq and U32Min.                                               *)
(*                                                                         *)
(* State.  The member _target_pos is written by decode (lines 105, 122)    *)
(* and read by read_time (lines 153-155) within the same call, so no call  *)
(* sees the value an earlier call left in it; the model hands the decoded  *)
(* position to read_time directly.  _head_pos is the state calls share.    *)
(* last is the call in progress as its caller sees it: arguments, result   *)
(* and the terms the result was summed from.                               *)
(***************************************************************************)
EXTENDS Integers, Sequences, FiniteSets, TLC

VARIABLES geom, head_pos, last

vars == <<geom, head_pos, last>>

(***************************************************************************)
(* Bounds of the model.                                                    *)
(***************************************************************************)
MaxSurfaces == 2
MaxTracks == 3
MaxDelta == 2
MaxXfer == 3

\* the literal 60 of wait_time and read_time (seconds per minute)
SecondsPerMinute == 60

Min(a, b) == IF a < b THEN a ELSE b
Abs(x) == IF x < 0 THEN -x ELSE x

RECURSIVE Gcd(_, _)
Gcd(a, b) == IF b = 0 THEN a ELSE Gcd(b, a % b)
Lcm(a, b) == (a * b) \div Gcd(a, b)

(***************************************************************************)
(* Geometry: the constructor's arguments.                                  *)
(***************************************************************************)
\* the device of the specification's concrete scenario
ScenarioGeom ==
  [surfaces |-> 1, tracks |-> 2, inner |-> 10, outer |-> 20, rpm |-> 6000,
   sector_size |-> 512, seek_overhead |-> 0, seek_per_track |-> 0]

\* The argument lists the constructor accepts within the bounds and for which
\* the arithmetic of the code is defined and its loops terminate.  Left out:
\* tracks_per_surface = 1 and rpm = 0 (a double division by zero), sector_size
\* = 0 (an integer division by zero), outer < inner (the uint32 difference
\* wraps and floor() leaves the range of uint32) and inner = outer = 0 (the
\* walk of read_time never ends).  The generic devices turn once a second,
\* have sectors of two bytes and an innermost track of at most one sector;
\* their seek costs are whole seconds.
AnyGeometries ==
  { [surfaces |-> s, tracks |-> n, inner |-> p[1], outer |-> p[1] + p[2],
     rpm |-> SecondsPerMinute, sector_size |-> 2,
     seek_overhead |-> c[1], seek_per_track |-> c[2]] :
      s \in 1..MaxSurfaces, n \in 2..MaxTracks,
      p \in { q \in (0..1) \X (0..MaxDelta) : q[1] + q[2] >= 1 },
      c \in (0..1) \X (0..1) }
  \cup {ScenarioGeom}

\* the check of the constructor (line 58) passes
GradientOk(g) == g.outer > g.inner

\* geometries on which every track holds at least one sector
Geometries == { g \in AnyGeometries : GradientOk(g) /\ g.inner >= 1 }

\* floor((double)_sectors_innermost_track + _sectors_diff * track)
TrackSector(g, t) == g.inner + ((g.outer - g.inner) * t) \div (g.tracks - 1)

RECURSIVE SumTrackSectors(_, _)
SumTrackSectors(g, n) ==
  IF n = 0 THEN 0 ELSE SumTrackSectors(g, n - 1) + TrackSector(g, n - 1)

\* total_sector of the constructor
TotalSector(g) == SumTrackSectors(g, g.tracks) * g.surfaces

\* sector totals t for which (uint64)(((t / 1e9) * sector_size) * 1e9) is
\* t * sector_size - 1 in IEEE double arithmetic, sector_size a power of two
CapacityRoundsDown == {15, 30, 60, 63, 120, 126, 240, 245, 247, 252}

\* (uint64)(_capacity * 1000000000.0)
CapacityLimit(g) ==
  TotalSector(g) * g.sector_size
    - (IF TotalSector(g) \in CapacityRoundsDown THEN 1 ELSE 0)

(***************************************************************************)
(* Time base.                                                              *)
(***************************************************************************)
\* the highest track a request of the model can reach
TrackReach(g) == g.tracks + MaxXfer + 1

RECURSIVE LcmTracks(_, _)
LcmTracks(g, t) ==
  LET n == TrackSector(g, t)
      rest == IF t = 0 THEN 2 ELSE LcmTracks(g, t - 1)
  IN IF n = 0 THEN rest ELSE Lcm(rest, n)

TimeBase(g) == LcmTracks(g, TrackReach(g))

TimeBaseOf == [g \in AnyGeometries |-> TimeBase(g)]

\* time units per second
Second(g, K) == (g.rpm \div SecondsPerMinute) * K

(***************************************************************************)
(* HDD::decode (lines 223-295).                                            *)
(***************************************************************************)
\* mutant: the comparison without the - 1
U32PredGeq_NoPred(total_sector, block_index) == total_sector >= block_index

\* total_sector - 1 >= block_index on uint32: 0 - 1 wraps to 2^32 - 1
U32PredGeq(total_sector, block_index) ==
  IF total_sector = 0 THEN TRUE ELSE total_sector - 1 >= block_index

\* the loop of lines 238-247: the track and the cumulated total_sector
RECURSIVE DecodeTrack(_, _, _, _)
DecodeTrack(g, block_index, track_index, total_sector) ==
  LET total == total_sector + TrackSector(g, track_index) * g.surfaces
  IN IF U32PredGeq(total, block_index)
     THEN [track |-> track_index, total_sector |-> total]
     ELSE DecodeTrack(g, block_index, track_index + 1, total)

\* the for loop of lines 258-267
RECURSIVE DecodeSurfaces(_, _, _, _, _)
DecodeSurfaces(g, block_index, total_sector, surface_index, end_flag) ==
  IF surface_index < g.surfaces
  THEN IF total_sector >= block_index
       THEN [total_sector |-> total_sector, surface_index |-> surface_index,
             end_flag |-> FALSE]
       ELSE DecodeSurfaces(g, block_index, total_sector + 1,
                           surface_index + 1, end_flag)
  ELSE [total_sector |-> total_sector, surface_index |-> surface_index,
        end_flag |-> end_flag]

\* the while loop of lines 256-274
RECURSIVE DecodeSlots(_, _, _, _, _, _, _)
DecodeSlots(g, block_index, track_sector, total_sector, sector_index, surface_index, end_flag) ==
  IF sector_index < track_sector /\ total_sector < block_index
  THEN LET f == DecodeSurfaces(g, block_index, total_sector, 0, end_flag)
       IN IF f.end_flag
          THEN DecodeSlots(g, block_index, track_sector, f.total_sector,
                           sector_index + 1, f.surface_index % g.surfaces,
                           f.end_flag)
          ELSE DecodeSlots(g, block_index, track_sector, f.total_sector,
                           sector_index, f.surface_index, f.end_flag)
  ELSE [surface |-> surface_index, sector |-> sector_index]

\* the value of *pos where decode does not write it
NoPosition == [surface |-> -1, track |-> -1, sector |-> -1]

decode(g, address) ==
  IF address > CapacityLimit(g)
  THEN [ok |-> FALSE, pos |-> NoPosition]
  ELSE LET block_index == address \div g.sector_size
           t == DecodeTrack(g, block_index, 0, 0)
           track_sector == TrackSector(g, t.track)
           first == t.total_sector - track_sector * g.surfaces
           s == DecodeSlots(g, block_index, track_sector, first, 0, 0, TRUE)
       IN [ok |-> TRUE,
           pos |-> [surface |-> s.surface, track |-> t.track,
                    sector |-> s.sector]]

(***************************************************************************)
(* HDD::seek_time, HDD::wait_time, HDD::read_time (lines 130-182).         *)
(***************************************************************************)
\* mutant: the distance without abs()
seek_time_signed(g, K, from_track, to_track) ==
  IF from_track = to_track
  THEN 0
  ELSE (to_track - from_track) * g.seek_per_track * Second(g, K)
         + g.seek_overhead * Second(g, K)

seek_time(g, K, from_track, to_track) ==
  IF from_track = to_track
  THEN 0
  ELSE Abs(to_track - from_track) * g.seek_per_track * Second(g, K)
         + g.seek_overhead * Second(g, K)

\* (1/2) * (1/rpm) * 60 seconds
wait_time(g, K) == K \div 2

\* (1/rpm) * (1/track_sector) * 60 seconds
SectorTime(g, K, track_sector) == K \div track_sector

\* the number of passes of the for loop of line 163: min(sectors, max_access)
\* with max_access a uint32, a negative value wrapping above every sectors
U32Min(sectors, max_access) ==
  IF max_access < 0 THEN sectors ELSE Min(sectors, max_access)

\* the while loop of lines 157-178
RECURSIVE ReadWalk(_, _, _, _, _, _, _)
ReadWalk(g, K, surface, track, sector, sectors, time) ==
  LET track_sector == TrackSector(g, track)
      max_access == ((track_sector - (sector + 1)) * g.surfaces)
                      + (g.surfaces - surface)
      read == U32Min(sectors, max_access)
      time1 == IF read = 0 THEN time
               ELSE time + read * SectorTime(g, K, track_sector)
  IN IF sectors - read <= 0
     THEN [time |-> time1, head |-> track]
     ELSE ReadWalk(g, K, 0, track + 1, 0, sectors - read,
                   time1 + seek_time(g, K, track + 1, track + 2)
                         + wait_time(g, K))

\* mutant: a track is taken to hold one more sector slot than it does
RECURSIVE ReadWalk_LongTrack(_, _, _, _, _, _, _)
ReadWalk_LongTrack(g, K, surface, track, sector, sectors, time) ==
  LET track_sector == TrackSector(g, track)
      max_access == ((track_sector - sector) * g.surfaces)
                      + (g.surfaces - surface)
      read == U32Min(sectors, max_access)
      time1 == IF read = 0 THEN time
               ELSE time + read * SectorTime(g, K, track_sector)
  IN IF sectors - read <= 0
     THEN [time |-> time1, head |-> track]
     ELSE ReadWalk_LongTrack(g, K, 0, track + 1, 0, sectors - read,
                             time1 + seek_time(g, K, track + 1, track + 2)
                                   + wait_time(g, K))

read_time_long_track(g, K, pos, sectors) ==
  ReadWalk_LongTrack(g, K, pos.surface, pos.track, pos.sector, sectors, 0)

\* mutant: the head is left on the track the transfer began on
read_time_head_at_start(g, K, pos, sectors) ==
  [time |-> ReadWalk(g, K, pos.surface, pos.track, pos.sector, sectors, 0).time,
   head |-> pos.track]

\* the time returned and the value left in _head_pos (line 180)
read_time(g, K, pos, sectors) ==
  ReadWalk(g, K, pos.surface, pos.track, pos.sector, sectors, 0)

(***************************************************************************)
(* The device and its caller.                                              *)
(***************************************************************************)
\* no call in progress
NoCall ==
  [op |-> "none", returns |-> "none", ts |-> 0, address |-> 0, size |-> 0,
   ok |-> FALSE, pos |-> NoPosition, seek |-> 0, wait |-> 0, xfer |-> 0,
   ret |-> 0]

\* the byte addresses of the calls: the first byte of every block up to the
\* second block past the capacity, and the last byte of the first block, of
\* the last block and of the block past the capacity
Addresses(g) ==
  { b * g.sector_size : b \in 0..(TotalSector(g) + 1) }
  \cup { b * g.sector_size + (g.sector_size - 1) :
           b \in {0, TotalSector(g) - 1, TotalSector(g)} }

\* the sizes of the calls: whole sectors, and one byte short of two sectors
Sizes(g) ==
  { n * g.sector_size : n \in 0..MaxXfer } \cup {2 * g.sector_size - 1}

\* decode and read_time on every address and sector count of the calls,
\* computed once for each geometry
DecodeOf ==
  [g \in AnyGeometries |-> [a \in Addresses(g) |-> decode(g, a)]]

ReadTimeOf ==
  [g \in AnyGeometries |->
    [a \in Addresses(g) |->
      [n \in 0..(MaxXfer + 1) |->
        IF DecodeOf[g][a].ok
        THEN read_time(g, TimeBaseOf[g], DecodeOf[g][a].pos, n)
        ELSE [time |-> 0, head |-> -1]]]]

\* the timestamps of the calls, in seconds
Timestamps == {0, 1}

\* The operands of the sum of lines 107 and 124 are evaluated in an order the
\* language leaves to the compiler: seek_time's argument _head_pos is read
\* before read_time assigns it, or after.
EvaluationOrders == {"seek_time first", "read_time first"}

\* mutant: a rejected request parks the head on track 0
Access_ParkOnFailure(op, ts, address, size) ==
  LET K == TimeBaseOf[geom]
      sectors == size \div geom.sector_size
      d == DecodeOf[geom][address]
      t0 == ts * Second(geom, K)
  IN /\ IF d.ok
        THEN \E order \in EvaluationOrders :
               LET rt == ReadTimeOf[geom][address][sectors]
                   from == IF order = "seek_time first" THEN head_pos
                           ELSE rt.head
                   seek == seek_time(geom, K, from, d.pos.track)
               IN /\ head_pos' = rt.head
                  /\ last' = [op |-> op, returns |-> "timestamp", ts |-> t0,
                              address |-> address, size |-> size, ok |-> TRUE,
                              pos |-> d.pos, seek |-> seek,
                              wait |-> wait_time(geom, K), xfer |-> rt.time,
                              ret |-> t0 + seek + wait_time(geom, K) + rt.time]
        ELSE /\ head_pos' = 0
             /\ last' = [op |-> op, returns |-> "timestamp", ts |-> t0,
                         address |-> address, size |-> size, ok |-> FALSE,
                         pos |-> NoPosition, seek |-> 0, wait |-> 0,
                         xfer |-> 0, ret |-> t0]
     /\ UNCHANGED geom

\* the body shared by read (lines 97-111) and write (lines 113-128)
Access(op, ts, address, size) ==
  LET K == TimeBaseOf[geom]
      sectors == size \div geom.sector_size
      d == DecodeOf[geom][address]
      t0 == ts * Second(geom, K)
  IN /\ IF d.ok
        THEN \E order \in EvaluationOrders :
               LET rt == ReadTimeOf[geom][address][sectors]
                   from == IF order = "seek_time first" THEN head_pos
                           ELSE rt.head
                   seek == seek_time(geom, K, from, d.pos.track)
               IN /\ head_pos' = rt.head
                  /\ last' = [op |-> op, returns |-> "timestamp", ts |-> t0,
                              address |-> address, size |-> size, ok |-> TRUE,
                              pos |-> d.pos, seek |-> seek,
                              wait |-> wait_time(geom, K), xfer |-> rt.time,
                              ret |-> t0 + seek + wait_time(geom, K) + rt.time]
        ELSE /\ head_pos' = head_pos
             /\ last' = [op |-> op, returns |-> "timestamp", ts |-> t0,
                         address |-> address, size |-> size, ok |-> FALSE,
                         pos |-> NoPosition, seek |-> 0, wait |-> 0,
                         xfer |-> 0, ret |-> t0]
     /\ UNCHANGED geom

read(ts, address, size) == Access("read", ts, address, size)

write(ts, address, size) == Access("write", ts, address, size)

\* a call of decode by the caller, with a position of its own
call_decode(address) ==
  LET d == DecodeOf[geom][address]
  IN /\ last' = [NoCall EXCEPT !.op = "decode", !.returns = "bool",
                                !.address = address, !.ok = d.ok,
                                !.pos = d.pos]
     /\ UNCHANGED <<geom, head_pos>>

\* the call returns to the caller (lines 110, 127, 294)
Return ==
  /\ last.op # "none"
  /\ last' = NoCall
  /\ UNCHANGED <<geom, head_pos>>

\* HDD::HDD on a geometry with a positive gradient and no empty track
Init ==
  /\ geom \in Geometries
  /\ head_pos = 0
  /\ last = NoCall

\* HDD::HDD on any geometry: the constructor prints an error and goes on
InitAny ==
  /\ geom \in AnyGeometries
  /\ head_pos = 0
  /\ last = NoCall

\* the caller is single-threaded: it makes a call when none is in progress
Idle == last.op = "none"

Next ==
  \/ Idle /\ \E ts \in Timestamps, a \in Addresses(geom), n \in Sizes(geom) :
               read(ts, a, n)
  \/ Idle /\ \E ts \in Timestamps, a \in Addresses(geom), n \in Sizes(geom) :
               write(ts, a, n)
  \/ Idle /\ \E a \in Addresses(geom) : call_decode(a)
  \/ Return

Spec == Init /\ [][Next]_vars

SpecAny == InitAny /\ [][Next]_vars

TypeOK ==
  /\ geom \in AnyGeometries
  /\ head_pos \in 0..TrackReach(geom)
  /\ last.op \in {"none", "read", "write", "decode"}

(***************************************************************************)
(* The layout the specification describes: blocks are numbered track by    *)
(* track, within a track sector slot by sector slot, within a slot surface *)
(* by surface.  None of this is computed by the code.                      *)
(***************************************************************************)
\* the first block of track t
FirstBlock(g, t) == SumTrackSectors(g, t) * g.surfaces

\* the track that holds a block, tracks numbered on past the last one
LayoutTrack(g, block) ==
  CHOOSE t \in 0..TrackReach(g) :
    FirstBlock(g, t) <= block /\ block < FirstBlock(g, t + 1)

ValidPosition(g, p) ==
  /\ p.surface \in 0..(g.surfaces - 1)
  /\ p.track \in 0..(g.tracks - 1)
  /\ p.sector \in 0..(TrackSector(g, p.track) - 1)

ValidPositions(g) ==
  { p \in [surface : 0..(g.surfaces - 1), track : 0..(g.tracks - 1),
           sector : 0..(TrackSector(g, g.tracks - 1) - 1)] :
      ValidPosition(g, p) }

\* the position decode gives block b
PositionOf(g, b) == DecodeOf[g][b * g.sector_size]

\* decode, on the blocks below the capacity, is the layout's enumeration
LayoutBijection(g) ==
  /\ \A b \in 0..(TotalSector(g) - 1) :
       LET d == PositionOf(g, b)
           f == FirstBlock(g, d.pos.track)
       IN /\ d.ok
          /\ ValidPosition(g, d.pos)
          /\ f <= b
          /\ b < FirstBlock(g, d.pos.track + 1)
          /\ d.pos.sector = (b - f) \div g.surfaces
          /\ d.pos.surface = (b - f) % g.surfaces
  /\ \A b1, b2 \in 0..(TotalSector(g) - 1) :
       PositionOf(g, b1).pos = PositionOf(g, b2).pos => b1 = b2
  /\ \A p \in ValidPositions(g) :
       \E b \in 0..(TotalSector(g) - 1) : PositionOf(g, b).pos = p
  /\ TotalSector(g) > 0 =>
       PositionOf(g, 0).pos = [surface |-> 0, track |-> 0, sector |-> 0]

\* a decode call has returned the position of a byte below the capacity
DecodedInRange ==
  /\ last.op = "decode"
  /\ last.address < TotalSector(geom) * geom.sector_size

\* the call in progress agrees with the layout's enumeration
DecodedAsLayout ==
  /\ last.ok
  /\ last.pos = PositionOf(geom, last.address \div geom.sector_size).pos
  /\ LayoutBijection(geom)

CapacityBytes(g) == TotalSector(g) * g.sector_size

\* a read or a write has been made and not yet returned
Accessed == last.op \in {"read", "write"}

\* the block a call starts at and the number of whole sectors it asks for
StartBlock == last.address \div geom.sector_size
SectorCount == last.size \div geom.sector_size

\* C2: decode fails for every address at or past the capacity in bytes, the
\* capacity itself included, and never succeeds with a track that is not a
\* track of the device.
C2_DecodeRejectsPastCapacity ==
  last.op = "decode" =>
    /\ last.address >= CapacityBytes(geom) => ~last.ok
    /\ last.ok => last.pos.track < geom.tracks

\* C3: a successful read or write returns ts + seekTime(head track before
\* the call, decoded track) + rotationalWait + the transfer time of
\* size div sectorSize sectors; on the scenario device read(0, 0, 512)
\* returns 0.006 seconds.
C3_AccessTime ==
  [][ (Accessed' /\ last'.ok) =>
        LET K == TimeBaseOf[geom]
            n == last'.size \div geom.sector_size
        IN /\ last'.ret = last'.ts
                            + seek_time(geom, K, head_pos, last'.pos.track)
                            + wait_time(geom, K)
                            + ReadTimeOf[geom][last'.address][n].time
           /\ ( /\ geom = ScenarioGeom
                /\ last'.op = "read"
                /\ last'.ts = 0
                /\ last'.address = 0
                /\ last'.size = 512 ) =>
                last'.ret * 1000 = 6 * Second(geom, K) ]_vars

\* the time of one sector on each of the n blocks from block b on, by the
\* layout
RECURSIVE LayoutSectorTimes(_, _, _, _)
LayoutSectorTimes(g, K, b, n) ==
  IF n = 0 THEN 0
  ELSE (K \div TrackSector(g, LayoutTrack(g, b)))
         + LayoutSectorTimes(g, K, b + 1, n - 1)

\* seekOverhead + seekPerTrack x 1 + rotationalWait
CrossingPenalty(g, K) ==
  (g.seek_overhead + g.seek_per_track * 1) * Second(g, K) + (K \div 2)

\* C4: a transfer charges 60 / (rpm x sectorsOnTrack(t)) for each sector on
\* track t and one penalty of seekOverhead + seekPerTrack + rotationalWait
\* for each track boundary crossed, final track minus start track of them;
\* a run that ends on the last sector of its track crosses none, a run that
\* goes on into the next track crosses one.
C4_TransferCharges ==
  (Accessed /\ last.ok) =>
    LET K == TimeBaseOf[geom]
        start == last.pos.track
        past == StartBlock + SectorCount
    IN /\ head_pos >= start
       /\ last.xfer = LayoutSectorTimes(geom, K, StartBlock, SectorCount)
                        + (head_pos - start) * CrossingPenalty(geom, K)
       /\ (SectorCount >= 1 /\ past = FirstBlock(geom, start + 1)) =>
            /\ head_pos = start
            /\ last.xfer = SectorCount * (K \div TrackSector(geom, start))
       /\ ( /\ past > FirstBlock(geom, start + 1)
            /\ past <= FirstBlock(geom, start + 2) ) =>
            /\ head_pos = start + 1
            /\ last.xfer =
                 (FirstBlock(geom, start + 1) - StartBlock)
                     * (K \div TrackSector(geom, start))
                   + CrossingPenalty(geom, K)
                   + (past - FirstBlock(geom, start + 1))
                       * (K \div TrackSector(geom, start + 1))

\* a transfer has filled the rest of a track that is not the last one and
\* gone on into the next, at a cost that is not zero
C4_Witness ==
  /\ Accessed
  /\ last.ok
  /\ last.pos.sector > 0
  /\ head_pos = last.pos.track + 1
  /\ head_pos < geom.tracks
  /\ geom.seek_overhead > 0
  /\ geom.seek_per_track > 0

\* C5: after any sequence of reads and writes the head track is a track of
\* the device.
C5_HeadTrackValid == head_pos \in 0..(geom.tracks - 1)

\* C6: a read or write whose address is at or past the capacity, or whose
\* address + size exceeds it, is rejected with a failure result: it does not
\* return a timestamp.
C6_AccessRejectsPastCapacity ==
  ( /\ Accessed
    /\ \/ last.address >= CapacityBytes(geom)
       \/ last.address + last.size > CapacityBytes(geom) ) =>
    last.returns # "timestamp"

\* C7: a read or write that decode rejects leaves the head track, the only
\* state later requests are charged from, as it was; so does every call of
\* decode.
C7_FailureLeavesHead ==
  [][ ((Accessed' /\ ~last'.ok) \/ last'.op = "decode") =>
        head_pos' = head_pos ]_vars

\* a request has been rejected, and a decode has returned, with the head
\* away from track 0
C7_Witness ==
  /\ head_pos > 0
  /\ \/ Accessed /\ ~last.ok
     \/ last.op = "decode" /\ last.ok

\* what the specification asks of the constructor's arguments
ValidGeometry(g) ==
  /\ g.outer > g.inner
  /\ g.tracks >= 2
  /\ g.rpm > 0
  /\ g.sector_size > 0

\* C8: construction fails on a geometry that is not valid, so no call is
\* ever made on a device with such a geometry.
C8_ConstructionRejects ==
  last.op \in {"read", "write", "decode"} => ValidGeometry(geom)

\* the tracks a head or a target can be on
Tracks(g) == 0..TrackReach(g)

\* seekTime is 0 on one track and seekOverhead + seekPerTrack x distance
\* between two, hence the same in both directions
SeekTimeFormula(g, K) ==
  \A from, to \in Tracks(g) :
    /\ seek_time(g, K, from, from) = 0
    /\ from # to =>
         seek_time(g, K, from, to) =
           (g.seek_overhead + g.seek_per_track * Abs(to - from)) * Second(g, K)
    /\ seek_time(g, K, from, to) = seek_time(g, K, to, from)

\* seekTime is never smaller for a larger distance
SeekTimeMonotone(g, K) ==
  \A from, to1, to2 \in Tracks(g) :
    (0 < Abs(to1 - from) /\ Abs(to1 - from) < Abs(to2 - from)) =>
      seek_time(g, K, from, to1) <= seek_time(g, K, from, to2)

\* seekTime is larger for a larger distance
SeekTimeStrict(g, K) ==
  \A from, to1, to2 \in Tracks(g) :
    (0 < Abs(to1 - from) /\ Abs(to1 - from) < Abs(to2 - from)) =>
      seek_time(g, K, from, to1) < seek_time(g, K, from, to2)

\* C9 (as amended): seekTime(t, t) = 0; between two tracks seekTime is
\* seekOverhead + seekPerTrack x distance, symmetric, and never smaller for
\* a larger distance; it is strictly larger when seekPerTrack > 0.  (The
\* law depends on the device alone and is evaluated between calls.)
C9_SeekTimeLaw ==
  Idle =>
    LET K == TimeBaseOf[geom]
    IN /\ SeekTimeFormula(geom, K)
       /\ SeekTimeMonotone(geom, K)
       /\ geom.seek_per_track > 0 => SeekTimeStrict(geom, K)

\* C9 as stated: strictly increasing in the distance on every configuration
C9_Original ==
  Idle =>
    LET K == TimeBaseOf[geom]
    IN /\ SeekTimeFormula(geom, K)
       /\ SeekTimeStrict(geom, K)

\* a read has been charged a seek inwards, over more than one track
C9_Witness ==
  /\ last.op = "read"
  /\ last.ok
  /\ geom.seek_per_track > 0
  /\ last.pos.track = 0
  /\ last.seek > seek_time(geom, TimeBaseOf[geom], 1, 0)

=============================================================================
